---- MODULE Spec2Model ----
(***************************************************************************)
(* A model of hastycsv (src/hastycsv.go): the Reader and its Read loop,    *)
(* the Field accessors, splitBytes and ParseUint32.                        *)
(*                                                                         *)
(* Bytes are their ASCII codes.  A []byte is a sequence of codes.  A       *)
(* Field's data is a view <<lo, hi>> (1-based, inclusive; hi = lo - 1 is   *)
(* the empty view) into the current line b, as a Go sub-slice is.          *)
(***************************************************************************)
EXTENDS Integers, Sequences, FiniteSets, TLC

\* ---------------------------------------------------------------- bounds
MaxLen == 4        \* longest input stream of a Read call, in bytes
MaxOps == 2        \* most Field accessor calls a callback makes per record
MaxSplitLen == 4   \* longest line handed to splitBytes on its own
MaxSlots == 3      \* largest slot table handed to splitBytes on its own
MaxShort == 3      \* ParseUint32 is run on every input up to this length
MaxCalls == 3      \* accessor calls made on the Fields of one Reader on their own
MaxFieldLen == 2   \* every Field content up to this length is tried there
MaxLowerLen == 3   \* every line up to this length is lowercased field by field

\* ------------------------------------------------------- bytes of the code
LF == 10           \* '\n'
CR == 13           \* '\r'
COMMA == 44        \* ','
Digit0 == 48       \* '0'
Digit9 == 57       \* '9'
UpperA == 65       \* 'A'
UpperZ == 90       \* 'Z'
LowerDelta == 32   \* 'a' - 'A'

\* Bytes the input streams are built from: '\n', ',', '1'.  With ',' as the
\* delimiter '1' is data, and with '1' as the delimiter ',' is data that no
\* coercion accepts; an empty field fails Float32 and passes Uint32.
StreamBytes == {LF, COMMA, Digit0 + 1}
\* Delimiters a caller configures: ',', '1', '\r', '\n'.
CommaBytes == {COMMA, Digit0 + 1, CR, LF}

RECURSIVE SeqsUpTo(_, _)
SeqsUpTo(S, n) ==
  IF n = 0 THEN {<<>>}
  ELSE LET shorter == SeqsUpTo(S, n - 1)
       IN  shorter \cup {Append(s, x) : s \in {t \in shorter : Len(t) = n - 1}, x \in S}

Streams == SeqsUpTo(StreamBytes, MaxLen)

\* --------------------------------------------------------------- errors
\* An error value is a record; fmt.Errorf's %v nesting is record nesting.
ErrNil == [kind |-> "nil"]
ErrInvalidComma == [kind |-> "Comma delimiter cannot be \\r or \\n"]
ErrExpectedFields(n, delim) == [kind |-> "Expected []b to contain n fields using delimiter", n |-> n, delim |-> delim]
ErrLineQuoted(i, e, text) == [kind |-> "Line i: e: \"text\"", row |-> i, err |-> e, text |-> text]
ErrLine(i, e) == [kind |-> "Line i: e", row |-> i, err |-> e]
ErrTooLong(data) == [kind |-> "is too long to be parsed as a uint32", data |-> data]
ErrNonNumeric(data, ch) == [kind |-> "contains non-numeric character", data |-> data, ch |-> ch]
ErrOverflows(data) == [kind |-> "overflows uint32", data |-> data]
ErrCantParseUint32(e) == [kind |-> "Can't parse field as uint32", err |-> e]
ErrParseFloat(s, why) == [kind |-> "strconv.ParseFloat", num |-> s, err |-> why]
ErrAbort == [kind |-> "callback", msg |-> "Abort!"]

\* ------------------------------------------------------------ byte search
\* bytes.IndexByte(b[from:], c) as an index into b, or -1.
RECURSIVE IndexByteFrom(_, _, _)
IndexByteFrom(b, from, c) ==
  IF from > Len(b) THEN -1
  ELSE IF b[from] = c THEN from
  ELSE IndexByteFrom(b, from + 1, c)

\* bytes.Count(b, []byte{c}).
RECURSIVE CountByte(_, _)
CountByte(b, c) ==
  IF b = <<>> THEN 0
  ELSE (IF Head(b) = c THEN 1 ELSE 0) + CountByte(Tail(b), c)

\* The bytes a Field views.
Data(line, f) == SubSeq(line, f[1], f[2])

\* ------------------------------------------------------------- splitBytes
\* The loop of splitBytes from iteration i (0-based) on, with the remaining
\* slice b[off:] of the line.
RECURSIVE splitLoop(_, _, _, _, _)
splitLoop(line, delim, flds, i, off) ==
  IF i >= Len(flds) - 1
  THEN [err |-> ErrNil, fields |-> [flds EXCEPT ![Len(flds)] = <<off, Len(line)>>]]
  ELSE LET idx == IndexByteFrom(line, off, delim)
       IN  IF idx = -1
           THEN [err |-> ErrExpectedFields(Len(flds), delim), fields |-> flds]
           ELSE splitLoop(line, delim, [flds EXCEPT ![i + 1] = <<off, idx - 1>>], i + 1, idx + 1)

\* A splitBytes that never reports a missing delimiter: a slot whose delimiter
\* is absent takes the rest of the line and the remaining slots are empty.
RECURSIVE splitLoopNoFail(_, _, _, _, _)
splitLoopNoFail(line, delim, flds, i, off) ==
  IF i >= Len(flds) - 1
  THEN [err |-> ErrNil, fields |-> [flds EXCEPT ![Len(flds)] = <<off, Len(line)>>]]
  ELSE LET idx == IndexByteFrom(line, off, delim)
           cut == IF idx = -1 THEN Len(line) + 1 ELSE idx
       IN  splitLoopNoFail(line, delim, [flds EXCEPT ![i + 1] = <<off, cut - 1>>], i + 1,
                           IF cut > Len(line) THEN cut ELSE cut + 1)

splitBytes_NoFail(line, delim, flds) == splitLoopNoFail(line, delim, flds, 0, 1)

\* A splitBytes whose last slot stops at the next delimiter instead of taking
\* the whole remainder.
splitBytes_LastCut(line, delim, flds) ==
  LET r == splitLoop(line, delim, flds, 0, 1)
      n == Len(flds)
      idx == IF r.err = ErrNil THEN IndexByteFrom(line, r.fields[n][1], delim) ELSE -1
  IN  IF idx = -1 THEN r
      ELSE [r EXCEPT !.fields[n] = <<r.fields[n][1], idx - 1>>]

\* splitBytes(b, delim, fields): the error and the slot table it leaves.
splitBytes(line, delim, flds) == splitLoop(line, delim, flds, 0, 1)

\* make([]Field, n): n fields with nil data.
MakeFields(n) == [i \in 1..n |-> <<1, 0>>]

\* ------------------------------------------------------------ ParseUint32
\* A uint64 is <<hi, lo>> with value hi * 10^9 + lo and lo < 10^9, so that every
\* intermediate value stays inside 32-bit integers.  ParseUint32 reads
\* at most 10 digits, so v stays below 10^10 and uint64 never wraps.
Limb == 1000 * 1000 * 1000
U64Zero == <<0, 0>>
U64Add(x, y) ==
  LET lo == x[2] + y[2]
  IN  <<x[1] + y[1] + (lo \div Limb), lo % Limb>>
U64MulDigit(k, x) ==
  LET lo == k * x[2]
  IN  <<k * x[1] + (lo \div Limb), lo % Limb>>
U64Gt(x, y) == x[1] > y[1] \/ (x[1] = y[1] /\ x[2] > y[2])

\* math.MaxUint32 = 4294967295.
MaxUint32 == <<4, 294967295>>

\* The table with entry 9 repeating entry 8, as entry 18 of the code repeats
\* entry 17.
base10exp_Slip ==
  << <<0, 1>>, <<0, 10>>, <<0, 100>>, <<0, 1000>>, <<0, 10000>>, <<0, 100000>>,
     <<0, 1000000>>, <<0, 10000000>>, <<0, 100000000>>,
     <<0, 100000000>>,
     <<10, 0>>, <<100, 0>>, <<1000, 0>>, <<10000, 0>>, <<100000, 0>>,
     <<1000000, 0>>, <<10000000, 0>>, <<100000000, 0>>,
     <<100000000, 0>>,
     <<1000000000, 0>> >>

\* base10exp, entry i of the code at index i + 1.  Entries 17 and 18 are both
\* 10^17 in the code.
base10exp ==
  << <<0, 1>>, <<0, 10>>, <<0, 100>>, <<0, 1000>>, <<0, 10000>>, <<0, 100000>>,
     <<0, 1000000>>, <<0, 10000000>>, <<0, 100000000>>,
     <<1, 0>>,
     <<10, 0>>, <<100, 0>>, <<1000, 0>>, <<10000, 0>>, <<100000, 0>>,
     <<1000000, 0>>, <<10000000, 0>>, <<100000000, 0>>,
     <<100000000, 0>>,
     <<1000000000, 0>> >>

\* A digit test whose lower comparison is off by one, so that '0' fails it.
NonDigit_ZeroExcluded(ch) == ch <= Digit0 \/ ch > Digit9

\* ch < '0' || ch > '9'
NonDigit(ch) == ch < Digit0 \/ ch > Digit9

\* An overflow test that is off by one: v > math.MaxUint32 + 1.
Overflows_OffByOne(v) == U64Gt(v, <<4, 294967296>>)

\* v > math.MaxUint32
Overflows(v) == U64Gt(v, MaxUint32)

\* The longest input ParseUint32 looks at.
MaxDigits == 10

\* The range loop of ParseUint32 from byte k (1-based) on; seen counts the bytes
\* inspected.
RECURSIVE parseLoop(_, _, _, _)
parseLoop(data, k, d, v) ==
  IF k > Len(data)
  THEN IF Overflows(v)
       THEN [val |-> U64Zero, err |-> ErrOverflows(data), seen |-> k - 1]
       ELSE [val |-> v, err |-> ErrNil, seen |-> k - 1]
  ELSE IF NonDigit(data[k])
       THEN [val |-> U64Zero, err |-> ErrNonNumeric(data, data[k]), seen |-> k]
       ELSE parseLoop(data, k + 1, d - 1,
                      U64Add(v, U64MulDigit(data[k] - Digit0, base10exp[(d - 1) + 1])))

\* A ParseUint32 whose length guard is off by one: d > 11.
ParseUint32_GuardOffByOne(data) ==
  IF Len(data) > MaxDigits + 1
  THEN [val |-> U64Zero, err |-> ErrTooLong(data), seen |-> 0]
  ELSE parseLoop(data, 1, Len(data), U64Zero)

\* ParseUint32(data): the value, the error, and how many bytes it inspected.
ParseUint32(data) ==
  IF Len(data) > MaxDigits
  THEN [val |-> U64Zero, err |-> ErrTooLong(data), seen |-> 0]
  ELSE parseLoop(data, 1, Len(data), U64Zero)

\* -------------------------------------------------------------- ParseFloat
\* strconv.ParseFloat(s, 32) decides a decimal literal: [sign] digits [. digits]
\* [e|E [sign] digits], with at least one mantissa digit.  The special values
\* (inf, nan), hexadecimal literals and the range error need bytes or lengths
\* the streams of this model cannot produce.
RECURSIVE SkipDigits(_, _)
SkipDigits(s, p) ==
  IF p <= Len(s) /\ s[p] >= 48 /\ s[p] <= 57 THEN SkipDigits(s, p + 1) ELSE p
SkipSign(s, p) == IF p <= Len(s) /\ s[p] \in {43, 45} THEN p + 1 ELSE p
FloatSyntaxOK(s) ==
  LET p1 == SkipSign(s, 1)
      p2 == SkipDigits(s, p1)
      p3 == IF p2 <= Len(s) /\ s[p2] = 46 THEN p2 + 1 ELSE p2
      p4 == SkipDigits(s, p3)
      mant == (p2 - p1) + (p4 - p3)
      hasExp == p4 <= Len(s) /\ s[p4] \in {69, 101}
      p5 == IF hasExp THEN SkipSign(s, p4 + 1) ELSE p4
      p6 == IF hasExp THEN SkipDigits(s, p5) ELSE p4
  IN  mant >= 1 /\ (hasExp => p6 > p5) /\ p6 = Len(s) + 1
ParseFloat(s) == IF FloatSyntaxOK(s) THEN ErrNil ELSE ErrParseFloat(s, "invalid syntax")

\* ------------------------------------------------------------------ state
VARIABLES
  Comma,          \* Reader.Comma
  row,            \* Reader.row
  err,            \* Reader.err, the deferred-error slot
  strm,           \* the bytes of the io.Reader r that nobody has read yet
  buf,            \* the bytes lineScanner has read and not yet returned
  b,              \* Read's local b, the current line
  fields,         \* Read's local fields, the slot table
  isFirstRecord,  \* Read's local isFirstRecord
  delim,          \* Read's local delim
  pc,             \* "idle", "scan" (at lineScanner.Scan), "cb" (in nextRecord), "done"
  ops,            \* accessor calls the running callback has made
  result,         \* what the last Read call returned
  in0,            \* history: the stream the current Read call was given
  calls,          \* history: the nextRecord invocations of the current Read call
  firstFail,      \* history: the first failing coercion of the current Read call
  cbRet,          \* history: what the last nextRecord invocation returned
  nReads,         \* history: Read calls made on this Reader, counted up to 2
  arg,            \* argument of the pure function under test
  out             \* its result

readerVars == <<Comma, row, err>>
localVars == <<b, fields, isFirstRecord, delim, ops>>
histVars == <<in0, calls, firstFail, cbRet, nReads>>
pureVars == <<arg, out>>
vars == <<Comma, row, err, strm, buf, b, fields, isFirstRecord, delim, pc, ops,
          result, in0, calls, firstFail, cbRet, nReads, arg, out>>

NoFail == [line |-> 0, err |-> ErrNil]
NoArg == [fn |-> "none"]

\* NewReader(), and no Read call yet.
InitReader ==
  /\ Comma = COMMA /\ row = 0 /\ err = ErrNil
  /\ strm = <<>> /\ buf = <<>>
  /\ b = <<>> /\ fields = <<>> /\ isFirstRecord = TRUE /\ delim = 0
  /\ pc = "idle" /\ ops = 0 /\ result = ErrNil
  /\ in0 = <<>> /\ calls = <<>> /\ firstFail = NoFail /\ cbRet = ErrNil /\ nReads = 0

Init == InitReader /\ arg = NoArg /\ out = NoArg

\* --------------------------------------------------------------- lineScanner
\* dropCR of bufio.ScanLines.
DropCR(data) ==
  IF Len(data) > 0 /\ data[Len(data)] = CR THEN SubSeq(data, 1, Len(data) - 1) ELSE data

\* One lineScanner.Scan() with bufio.ScanLines: the scanner splits what it holds
\* and reads r only when that holds no whole line.  The streams are shorter than
\* the scanner's buffer, so one read of r takes all of it and the next one
\* reports the end of the input.
ScannerScan(held, unread) ==
  LET data == IF IndexByteFrom(held, 1, LF) # -1 THEN held ELSE held \o unread
      rest == IF IndexByteFrom(held, 1, LF) # -1 THEN unread ELSE <<>>
      nl == IndexByteFrom(data, 1, LF)
  IN  IF nl # -1
      THEN [ok |-> TRUE, token |-> DropCR(SubSeq(data, 1, nl - 1)),
            buf |-> SubSeq(data, nl + 1, Len(data)), strm |-> rest]
      ELSE IF data = <<>>
      THEN [ok |-> FALSE, token |-> <<>>, buf |-> <<>>, strm |-> rest]
      ELSE [ok |-> TRUE, token |-> DropCR(data), buf |-> <<>>, strm |-> rest]

\* --------------------------------------------------------------- Reader.Read
\* A delimiter test that forgets '\n'.
InvalidComma_OnlyCR(c) == c = CR

\* me.Comma == '\r' || me.Comma == '\n'
InvalidComma(c) == c = CR \/ c = LF

\* A field count that forgets the + 1.
FieldCount_NoPlusOne(line, d) == CountByte(line, d)

\* bytes.Count(b, []byte{delim}) + 1
FieldCount(line, d) == CountByte(line, d) + 1

\* Read returns e: its locals and the scanner are gone.
Return(e) ==
  /\ result' = e
  /\ pc' = "done"
  /\ b' = <<>> /\ fields' = <<>> /\ isFirstRecord' = TRUE /\ delim' = 0 /\ ops' = 0
  /\ buf' = <<>>

\* r.Comma = c, between two Read calls.
SetComma(c) ==
  /\ pc = "idle"
  /\ c # Comma
  /\ Comma' = c
  /\ UNCHANGED <<row, err, strm, buf, localVars, pc, result, histVars, pureVars>>

\* The caller is done with the result of a Read call and with its stream, and
\* keeps the Reader for another call.
CallerContinues ==
  /\ pc = "done"
  /\ pc' = "idle"
  /\ result' = ErrNil /\ strm' = <<>>
  /\ in0' = <<>> /\ calls' = <<>> /\ firstFail' = NoFail /\ cbRet' = ErrNil
  /\ UNCHANGED <<readerVars, buf, localVars, nReads, pureVars>>

\* A call me.Read(r, nextRecord) with r holding input, up to the loop.
ReadEnter(input) ==
  /\ pc = "idle"
  /\ in0' = input /\ calls' = <<>> /\ firstFail' = NoFail /\ cbRet' = ErrNil
  /\ nReads' = IF nReads < 2 THEN nReads + 1 ELSE nReads
  /\ strm' = input
  /\ IF InvalidComma(Comma)
     THEN /\ Return(ErrInvalidComma)
          /\ UNCHANGED <<readerVars>>
     ELSE /\ fields' = <<>> /\ isFirstRecord' = TRUE /\ delim' = Comma
          /\ row' = 0
          /\ buf' = <<>> /\ b' = <<>> /\ ops' = 0
          /\ pc' = "scan"
          /\ result' = ErrNil
          /\ UNCHANGED <<Comma, err>>
  /\ UNCHANGED pureVars

\* lineScanner.Scan() returns true: one pass of the loop body up to the call of
\* nextRecord, or to the return on a split error.
ReadLine ==
  /\ pc = "scan"
  /\ LET sc == ScannerScan(buf, strm)
         flds0 == IF isFirstRecord THEN MakeFields(FieldCount(sc.token, delim)) ELSE fields
         sp == splitBytes(sc.token, delim, flds0)
     IN  /\ sc.ok
         /\ strm' = sc.strm
         /\ row' = row + 1
         /\ IF sp.err # ErrNil
            THEN /\ Return(ErrLineQuoted(row + 1, sp.err, sc.token))
                 /\ UNCHANGED calls
            ELSE /\ buf' = sc.buf /\ b' = sc.token /\ fields' = sp.fields
                 /\ isFirstRecord' = FALSE
                 /\ ops' = 0
                 /\ pc' = "cb"
                 /\ calls' = Append(calls, [i |-> row + 1, line |-> sc.token,
                                            record |-> [k \in 1..Len(sp.fields) |-> Data(sc.token, sp.fields[k])]])
                 /\ UNCHANGED <<result, delim>>
  /\ UNCHANGED <<Comma, err, in0, firstFail, cbRet, nReads, pureVars>>

\* lineScanner.Scan() returns false: the code after the loop.
ReadEOF ==
  /\ pc = "scan"
  /\ LET sc == ScannerScan(buf, strm)
     IN  /\ ~sc.ok
         /\ strm' = sc.strm
  /\ IF err # ErrNil THEN Return(ErrLine(row, err)) ELSE Return(ErrNil)
  /\ UNCHANGED <<readerVars, histVars, pureVars>>

\* ------------------------------------------------------ inside the callback
\* history: remember the first failing coercion of this Read call.
NoteFail(e) ==
  firstFail' = IF e # ErrNil /\ firstFail = NoFail THEN [line |-> row, err |-> e] ELSE firstFail

\* A slot that every failing call overwrites.
SlotAfter_Overwrite(slot, e) == IF e # ErrNil THEN e ELSE slot

\* if err != nil { if me.reader.err == nil { me.reader.err = ... } }
SlotAfter(slot, e) == IF e # ErrNil /\ slot = ErrNil THEN e ELSE slot

\* float32(0), and the float32 nearest to the value of a literal.
FloatZero == [float32 |-> <<Digit0>>]
FloatOf(s) == [float32 |-> s]

\* Field.Uint32() on a Field viewing data, with the Reader's slot: the value it
\* returns, the error of this call, and the slot afterwards.
Uint32Of(slot, data) ==
  LET r == ParseUint32(data)
      e == IF r.err # ErrNil THEN ErrCantParseUint32(r.err) ELSE ErrNil
  IN  [ret |-> r.val, fail |-> e, slot |-> SlotAfter(slot, e)]

\* Field.Float32() likewise.
Float32Of(slot, data) ==
  LET e == ParseFloat(data)
  IN  [ret |-> IF e # ErrNil THEN FloatZero ELSE FloatOf(data), fail |-> e,
       slot |-> SlotAfter(slot, e)]

\* The callback calls record[k].Uint32().
FieldUint32(k) ==
  /\ pc = "cb" /\ ops < MaxOps
  /\ LET c == Uint32Of(err, Data(b, fields[k]))
     IN  /\ err' = c.slot
         /\ NoteFail(c.fail)
  /\ ops' = ops + 1
  /\ UNCHANGED <<Comma, row, strm, buf, b, fields, isFirstRecord, delim, pc, result,
                 in0, calls, cbRet, nReads, pureVars>>

\* The callback calls record[k].Float32().
FieldFloat32(k) ==
  /\ pc = "cb" /\ ops < MaxOps
  /\ LET c == Float32Of(err, Data(b, fields[k]))
     IN  /\ err' = c.slot
         /\ NoteFail(c.fail)
  /\ ops' = ops + 1
  /\ UNCHANGED <<Comma, row, strm, buf, b, fields, isFirstRecord, delim, pc, result,
                 in0, calls, cbRet, nReads, pureVars>>

\* Checks that look at the callback's return value before the slot.
CallbackVerdict_CallbackFirst(slot, e) == IF e # ErrNil THEN e ELSE slot

\* if me.err != nil { ... } else if callbackErr != nil { ... }: the error Read
\* stops with after a callback that returned e, nil when the loop goes on.
CallbackVerdict(slot, e) == IF slot # ErrNil THEN slot ELSE e

\* nextRecord returns e: the checks of Read after the call.
CallbackReturn(e) ==
  /\ pc = "cb"
  /\ cbRet' = e
  /\ LET v == CallbackVerdict(err, e)
     IN  IF v # ErrNil THEN Return(ErrLine(row, v))
         ELSE /\ pc' = "scan" /\ ops' = 0
              /\ UNCHANGED <<b, fields, isFirstRecord, delim, buf, result>>
  /\ UNCHANGED <<readerVars, strm, in0, calls, firstFail, nReads, pureVars>>

Next ==
  \/ \E c \in CommaBytes : SetComma(c)
  \/ CallerContinues
  \/ \E input \in Streams : ReadEnter(input)
  \/ ReadLine
  \/ ReadEOF
  \/ \E k \in 1..Len(fields) : FieldUint32(k)
  \/ \E k \in 1..Len(fields) : FieldFloat32(k)
  \/ \E e \in {ErrNil, ErrAbort} : CallbackReturn(e)

Spec == Init /\ [][Next]_vars

\* ------------------------------------------------- what the claims speak of
\* strings.Split(s, d): the pieces of s between the occurrences of d.
RECURSIVE NaiveSplit(_, _)
NaiveSplit(s, d) ==
  LET i == IndexByteFrom(s, 1, d)
  IN  IF i = -1 THEN <<s>>
      ELSE <<SubSeq(s, 1, i - 1)>> \o NaiveSplit(SubSeq(s, i + 1, Len(s)), d)

\* The lines of an input: its pieces between '\n' bytes, without the empty
\* piece after a final '\n', each without one trailing '\r'.
LinesOf(input) ==
  LET p == NaiveSplit(input, LF)
      q == IF p[Len(p)] = <<>> THEN SubSeq(p, 1, Len(p) - 1) ELSE p
  IN  [k \in 1..Len(q) |-> DropCR(q[k])]

\* The field count the first line of an input fixes.
InferredN(input, d) == CountByte(LinesOf(input)[1], d) + 1

\* The first line after line 1 with fewer than N - 1 delimiters, or 0.
FirstShort(input, d) ==
  LET ls == LinesOf(input)
      short == {k \in 2..Len(ls) : CountByte(ls[k], d) < InferredN(input, d) - 1}
  IN  IF short = {} THEN 0 ELSE CHOOSE k \in short : \A j \in short : k <= j

\* A Read call that got past the delimiter check is running or has returned.
InSession == pc \in {"scan", "cb", "done"} /\ Comma \notin {CR, LF}

\* The callback was invoked for lines 1..Len(calls) of the input, in order.
CallsInOrder ==
  \A j \in 1..Len(calls) :
    /\ calls[j].i = j
    /\ j <= Len(LinesOf(in0))
    /\ calls[j].line = LinesOf(in0)[j]

\* ------------------------------------------------------------------- C1
\* C1: when a Read call has returned and line k was the first line whose
\* callback made a failing Uint32/Float32 call, Read's error is "Line k: " with
\* the error of that failing call, and the callback ran for lines 1..k only.
C1_FirstFailingCoercionReported ==
  (pc = "done" /\ firstFail # NoFail) =>
    /\ result = ErrLine(firstFail.line, firstFail.err)
    /\ Len(calls) = firstFail.line
    /\ CallsInOrder

\* The same on the first Read call of a Reader, whose slot starts empty.
C1_OnFreshReader == nReads = 1 => C1_FirstFailingCoercionReported

\* ------------------------------------------------------------------- C2
\* C2: when a Read call without a failing coercion has returned and its callback
\* returned an error at line k, Read's error is "Line k: " with the callback's
\* error, and the callback ran once for each of lines 1..k, in order.
C2_CallbackErrorReported ==
  (pc = "done" /\ firstFail = NoFail /\ cbRet # ErrNil) =>
    /\ result = ErrLine(Len(calls), cbRet)
    /\ CallsInOrder

\* The same on the first Read call of a Reader.
C2_OnFreshReader == nReads = 1 => C2_CallbackErrorReported

\* ------------------------------------------------------------------- C3
\* C3: a Read call on a Reader whose Comma is '\r' or '\n' returns the
\* invalid-delimiter error at once: no callback invocation, the stream still
\* whole, Reader.row and Reader.err as they were.
C3_InvalidCommaRejected ==
  [][(pc = "idle" /\ pc' # "idle" /\ Comma \in {CR, LF}) =>
       /\ pc' = "done"
       /\ result' = ErrInvalidComma
       /\ calls' = <<>>
       /\ strm' = in0'
       /\ row' = row
       /\ err' = err]_vars

\* A rejected Read call on a Reader that an earlier call left with a line count
\* and a deferred error, over a non-empty stream.
C3_Witness ==
  /\ pc = "done" /\ Comma \in {CR, LF} /\ result = ErrInvalidComma
  /\ row > 0 /\ err # ErrNil /\ in0 # <<>> /\ strm = in0

C5_ShortLineIsFatal ==
  InSession =>
    LET k == FirstShort(in0, Comma)
    IN  k > 0 =>
          /\ \A j \in 1..Len(calls) : calls[j].i < k
          /\ row <= k
          /\ (pc = "done" /\ row = k) =>
               /\ result = ErrLineQuoted(k, ErrExpectedFields(InferredN(in0, Comma), Comma),
                                         LinesOf(in0)[k])
               /\ Len(calls) = k - 1

\* Read stopped at a short line 2 or later, after dispatching the lines before.
C5_Witness ==
  /\ pc = "done" /\ Comma \notin {CR, LF}
  /\ FirstShort(in0, Comma) >= 2 /\ row = FirstShort(in0, Comma)
  /\ result = ErrLineQuoted(row, ErrExpectedFields(InferredN(in0, Comma), Comma), LinesOf(in0)[row])
  /\ Len(calls) = row - 1

\* ------------------------------------------------------------------- C6
\* C6 as claimed: every dispatched line has exactly N - 1 delimiter bytes, N
\* being the field count of the first line.
C6_ExactlyNFields ==
  InSession =>
    \A j \in 1..Len(calls) :
      CountByte(calls[j].line, Comma) = InferredN(in0, Comma) - 1

\* C6 as amended: every dispatched line comes as N slots and has at least N - 1
\* delimiter bytes; the first N - 1 slots hold no delimiter and the last holds
\* every delimiter beyond the (N - 1)-th.
C6_AtLeastNFields ==
  InSession =>
    \A j \in 1..Len(calls) :
      LET n == InferredN(in0, Comma)
          rec == calls[j].record
      IN  /\ Len(rec) = n
          /\ CountByte(calls[j].line, Comma) >= n - 1
          /\ \A i \in 1..(n - 1) : CountByte(rec[i], Comma) = 0
          /\ CountByte(rec[n], Comma) = CountByte(calls[j].line, Comma) - (n - 1)

\* A line with more than N - 1 delimiters was dispatched.
C6_Witness ==
  /\ InSession
  /\ \E j \in 1..Len(calls) :
       /\ CountByte(calls[j].line, Comma) > InferredN(in0, Comma) - 1
       /\ Len(calls[j].record) >= 2

\* ------------------------------------------------- splitBytes on its own
\* splitBytes is called on a line b, a delimiter and a fresh table of n slots.
SplitArgs ==
  {[fn |-> "splitBytes", b |-> l, delim |-> d, n |-> n] :
     l \in SeqsUpTo({COMMA, Digit0 + 1, UpperA}, MaxSplitLen),
     d \in {COMMA, UpperA},
     n \in 1..MaxSlots}

InitSplit == InitReader /\ arg \in SplitArgs /\ out = NoArg

ApplySplitBytes ==
  /\ arg.fn = "splitBytes" /\ out = NoArg
  /\ out' = splitBytes(arg.b, arg.delim, MakeFields(arg.n))
  /\ UNCHANGED <<Comma, row, err, strm, buf, b, fields, isFirstRecord, delim, pc, ops,
                 result, in0, calls, firstFail, cbRet, nReads, arg>>

NextSplit == ApplySplitBytes

SpecSplit == InitSplit /\ [][NextSplit]_vars

\* The pieces of a naive split from piece m on, joined with d again.
RECURSIVE JoinFrom(_, _, _)
JoinFrom(pieces, m, d) ==
  IF m = Len(pieces) THEN pieces[m]
  ELSE pieces[m] \o <<d>> \o JoinFrom(pieces, m + 1, d)

\* ------------------------------------------------------------------- C7
\* C7: when the line has at least N - 1 delimiters, splitBytes succeeds, slots
\* 0..N-2 are the first N - 1 pieces of the naive split and slot N-1 is all that
\* follows the (N - 1)-th delimiter; with exactly N - 1 delimiters that is the
\* naive split, and with N = 1 the one slot is the whole line.
C7_SplitBytes ==
  (out # NoArg /\ arg.fn = "splitBytes" /\ CountByte(arg.b, arg.delim) >= arg.n - 1) =>
    LET pieces == NaiveSplit(arg.b, arg.delim)
        rec == [i \in 1..Len(out.fields) |-> Data(arg.b, out.fields[i])]
    IN  /\ out.err = ErrNil
        /\ Len(rec) = arg.n
        /\ \A i \in 1..(arg.n - 1) : rec[i] = pieces[i]
        /\ rec[arg.n] = JoinFrom(pieces, arg.n, arg.delim)
        /\ (CountByte(arg.b, arg.delim) = arg.n - 1 => rec = pieces)
        /\ (arg.n = 1 => rec = <<arg.b>>)

\* splitBytes filled a table of two or more slots from a line with surplus
\* delimiters.
C7_Witness ==
  /\ out # NoArg /\ arg.fn = "splitBytes" /\ out.err = ErrNil
  /\ arg.n >= 2 /\ CountByte(arg.b, arg.delim) > arg.n - 1
  /\ CountByte(Data(arg.b, out.fields[arg.n]), arg.delim) >= 1

\* ------------------------------------------------ ParseUint32 on its own
\* seq as ASCII digits.
Digits(seq) == [i \in 1..Len(seq) |-> Digit0 + seq[i]]

DigitBytes == Digit0..Digit9
\* '-', '.', ' ', 'x', 'F'
OtherBytes == {45, 46, 32, 120, 70}

\* Ten-digit inputs at and around the largest uint32, and one with leading
\* zeros.
Bases ==
  { Digits(<<4, 2, 9, 4, 9, 6, 7, 2, 9, 5>>),
    Digits(<<4, 2, 9, 4, 9, 6, 7, 2, 9, 6>>),
    Digits(<<9, 9, 9, 9, 9, 9, 9, 9, 9, 9>>),
    Digits(<<0, 0, 0, 0, 0, 0, 0, 0, 1, 2>>) }

\* Each of them with any one byte replaced.
Perturbed ==
  {[s EXCEPT ![i] = c] : s \in Bases, i \in 1..MaxDigits, c \in DigitBytes \cup OtherBytes}

ParseInputs ==
  \* every short input
  SeqsUpTo({Digit0, Digit0 + 1, Digit9, 45, 46, 120}, MaxShort)
  \* the ten-byte inputs, their prefixes and suffixes
  \cup {SubSeq(s, 1, j) : s \in Perturbed, j \in 1..MaxDigits}
  \cup {SubSeq(s, j, MaxDigits) : s \in Bases, j \in 1..MaxDigits}
  \* inputs of eleven bytes
  \cup {Append(s, c) : s \in Perturbed, c \in {Digit0, Digit9, 120}}
  \* inputs of twelve bytes
  \cup {Append(Append(s, c), c) : s \in Bases, c \in {Digit0, Digit9, 120}}

InitParse == InitReader /\ arg \in {[fn |-> "ParseUint32", data |-> s] : s \in ParseInputs}
             /\ out = NoArg

ApplyParseUint32 ==
  /\ arg.fn = "ParseUint32" /\ out = NoArg
  /\ out' = ParseUint32(arg.data)
  /\ UNCHANGED <<Comma, row, err, strm, buf, b, fields, isFirstRecord, delim, pc, ops,
                 result, in0, calls, firstFail, cbRet, nReads, arg>>

NextParse == ApplyParseUint32

SpecParse == InitParse /\ [][NextParse]_vars

Parsed == out # NoArg /\ arg.fn = "ParseUint32"
AllDigits(s) == \A i \in 1..Len(s) : s[i] \in DigitBytes

\* A digit string without its leading zeros (zero is the empty string).
RECURSIVE Canon(_)
Canon(s) == IF s # <<>> /\ Head(s) = Digit0 THEN Canon(Tail(s)) ELSE s

\* The decimal digits of a natural number below 10^9, most significant first.
RECURSIVE DigitsOfNat(_)
DigitsOfNat(n) == IF n = 0 THEN <<>> ELSE Append(DigitsOfNat(n \div 10), Digit0 + (n % 10))
Pad9(s) == [i \in 1..(9 - Len(s)) |-> Digit0] \o s

\* The canonical decimal string of a returned value.
Decimal(v) == Canon(DigitsOfNat(v[1]) \o Pad9(DigitsOfNat(v[2])))

\* s < t for canonical digit strings.
RECURSIVE LexLess(_, _)
LexLess(s, t) ==
  IF s = <<>> THEN FALSE
  ELSE IF Head(s) # Head(t) THEN Head(s) < Head(t)
  ELSE LexLess(Tail(s), Tail(t))
DecLess(s, t) == Len(s) < Len(t) \/ (Len(s) = Len(t) /\ LexLess(s, t))

\* "4294967295"
MaxUint32Text == Digits(<<4, 2, 9, 4, 9, 6, 7, 2, 9, 5>>)
ExceedsUint32(s) == DecLess(MaxUint32Text, Canon(s))

\* ------------------------------------------------------------------- C8
\* C8: on 0 to 10 digits whose decimal value is at most 4294967295, ParseUint32
\* returns that value and no error; leading zeros add nothing and the empty
\* input gives 0.
C8_ParsesValue ==
  (Parsed /\ Len(arg.data) <= 10 /\ AllDigits(arg.data) /\ ~ExceedsUint32(arg.data)) =>
    /\ out.err = ErrNil
    /\ Decimal(out.val) = Canon(arg.data)
    /\ out.val[2] < Limb
    /\ (arg.data = <<>> => out.val = U64Zero)

\* ParseUint32 returned the largest uint32 for "4294967295".
C8_Witness ==
  /\ Parsed /\ arg.data = MaxUint32Text /\ out.err = ErrNil /\ out.val = <<4, 294967295>>

\* ------------------------------------------------------------------- C9
\* C9 as claimed: on every input with a non-digit byte, ParseUint32 fails with
\* the non-numeric-character error naming the first such byte.
C9_NonDigitAnyLength ==
  (Parsed /\ ~AllDigits(arg.data)) =>
    LET first == CHOOSE i \in 1..Len(arg.data) :
                   /\ arg.data[i] \notin DigitBytes
                   /\ \A j \in 1..(i - 1) : arg.data[j] \in DigitBytes
    IN  out.err = ErrNonNumeric(arg.data, arg.data[first])

\* C9 as amended: on every input of at most 10 bytes with a non-digit byte,
\* ParseUint32 returns 0 and the non-numeric-character error naming the first
\* such byte; a longer input gets the too-long error instead.
C9_NonDigitUpTo10 ==
  (Parsed /\ ~AllDigits(arg.data)) =>
    LET first == CHOOSE i \in 1..Len(arg.data) :
                   /\ arg.data[i] \notin DigitBytes
                   /\ \A j \in 1..(i - 1) : arg.data[j] \in DigitBytes
    IN  /\ out.val = U64Zero
        /\ IF Len(arg.data) <= 10
           THEN out.err = ErrNonNumeric(arg.data, arg.data[first])
           ELSE out.err = ErrTooLong(arg.data)

\* ParseUint32 rejected a ten-byte input for a letter after some digits.
C9_Witness ==
  /\ Parsed /\ Len(arg.data) = 10 /\ out.err.kind = "contains non-numeric character"
  /\ out.err.ch = 120 /\ arg.data[1] \in DigitBytes /\ arg.data[2] \in DigitBytes

\* ------------------------------------------------------------------ C10
\* C10 as claimed: on every all-digit input whose value exceeds 4294967295,
\* ParseUint32 returns 0 and the overflow error.
C10_OverflowAnyLength ==
  (Parsed /\ AllDigits(arg.data) /\ ExceedsUint32(arg.data)) =>
    /\ out.val = U64Zero
    /\ out.err = ErrOverflows(arg.data)

\* C10 as amended: on every all-digit input of at most 10 bytes whose value
\* exceeds 4294967295, ParseUint32 returns 0 and the overflow error; a longer
\* all-digit input gets the too-long error instead.
C10_OverflowUpTo10 ==
  (Parsed /\ AllDigits(arg.data) /\ ExceedsUint32(arg.data)) =>
    /\ out.val = U64Zero
    /\ IF Len(arg.data) <= 10
       THEN out.err = ErrOverflows(arg.data)
       ELSE out.err = ErrTooLong(arg.data)

\* ParseUint32 rejected "4294967296" as an overflow.
C10_Witness ==
  /\ Parsed /\ arg.data = Digits(<<4, 2, 9, 4, 9, 6, 7, 2, 9, 6>>)
  /\ out.err = ErrOverflows(arg.data) /\ out.val = U64Zero

\* ------------------------------------------------------------------ C11
\* C11: on every input longer than 10 bytes, digits or not, ParseUint32 returns
\* 0 and the too-long error without having inspected a byte.
C11_TooLong ==
  (Parsed /\ Len(arg.data) > 10) =>
    /\ out.val = U64Zero
    /\ out.err = ErrTooLong(arg.data)
    /\ out.seen = 0

\* ParseUint32 rejected as too long an eleven-byte input that starts with a
\* non-digit.
C11_Witness ==
  /\ Parsed /\ Len(arg.data) = 11 /\ out.err = ErrTooLong(arg.data)
  /\ arg.data[1] \notin DigitBytes

\* ------------------------------------- Field accessors on their own
\* Fields of one fresh Reader, as the tests make them (Field{reader: r, data:
\* ...}), and a sequence of Uint32 and Float32 calls on them.
\* Contents: everything short over '1', '.', 'x', and some long digit strings.
FieldContents ==
  SeqsUpTo({Digit0 + 1, 46, 120}, MaxFieldLen)
  \cup { Digits(<<4, 2, 9, 4, 9, 6, 7, 2, 9, 5>>),
         Digits(<<4, 2, 9, 4, 9, 6, 7, 2, 9, 6>>),
         Digits(<<9, 9, 9, 9, 9, 9, 9, 9, 9, 9, 9>>) }

CallUint32(data) ==
  /\ pc = "idle" /\ ops < MaxCalls
  /\ LET c == Uint32Of(err, data)
     IN  /\ err' = c.slot
         /\ NoteFail(c.fail)
         /\ out' = [ret |-> c.ret, fail |-> c.fail]
  /\ arg' = [fn |-> "Field.Uint32", data |-> data]
  /\ ops' = ops + 1
  /\ UNCHANGED <<Comma, row, strm, buf, b, fields, isFirstRecord, delim, pc, result,
                 in0, calls, cbRet, nReads>>

CallFloat32(data) ==
  /\ pc = "idle" /\ ops < MaxCalls
  /\ LET c == Float32Of(err, data)
     IN  /\ err' = c.slot
         /\ NoteFail(c.fail)
         /\ out' = [ret |-> c.ret, fail |-> c.fail]
  /\ arg' = [fn |-> "Field.Float32", data |-> data]
  /\ ops' = ops + 1
  /\ UNCHANGED <<Comma, row, strm, buf, b, fields, isFirstRecord, delim, pc, result,
                 in0, calls, cbRet, nReads>>

NextField ==
  \/ \E data \in FieldContents : CallUint32(data)
  \/ \E data \in FieldContents : CallFloat32(data)

SpecField == Init /\ [][NextField]_vars

\* ------------------------------------------------------------------ C12
\* C12: over any sequence of Uint32/Float32 calls on Fields of one Reader, the
\* slot holds the error of the first failing call (and is empty while none has
\* failed), so later failing calls and successful calls leave it alone; a
\* failing call returns 0.  A Uint32 call fails exactly on an input that is too
\* long, has a non-digit or exceeds 4294967295.
C12_StickyFirstError ==
  /\ err = firstFail.err
  /\ out # NoArg =>
       /\ out.fail # ErrNil => out.ret \in {U64Zero, FloatZero}
       /\ arg.fn = "Field.Uint32" =>
            (out.fail # ErrNil <=>
               (Len(arg.data) > 10 \/ ~AllDigits(arg.data) \/ ExceedsUint32(arg.data)))

\* A failing call was made while the slot already held another call's error,
\* and the slot kept that one.
C12_Witness ==
  /\ out # NoArg /\ ops >= 2
  /\ out.fail # ErrNil /\ err # ErrNil /\ err # out.fail
  /\ err = firstFail.err

\* ------------------------------------------------ Field.ToLower on its own
\* A ToLower that lowercases the whole line buffer, not the field's span.
ToLower_WholeLine(line, f) ==
  [i \in 1..Len(line) |->
     IF line[i] >= UpperA /\ line[i] <= UpperZ THEN line[i] + LowerDelta ELSE line[i]]

\* Field.ToLower on the field with span f of the buffer line: the buffer
\* afterwards.  The Field it returns is the receiver, so the same span.
ToLower(line, f) ==
  [i \in 1..Len(line) |->
     IF i >= f[1] /\ i <= f[2] /\ line[i] >= UpperA /\ line[i] <= UpperZ
     THEN line[i] + LowerDelta
     ELSE line[i]]

\* Lines of one record over ',', '@', 'A', 'Z', '[' and the non-ASCII byte 200,
\* split at ',' into the fields the callback receives.
LowerBytes == {COMMA, UpperA - 1, UpperA, UpperZ, UpperZ + 1, 200}

\* Read is inside the callback of its first record.
InitLower ==
  /\ Comma = COMMA /\ row = 1 /\ err = ErrNil
  /\ strm = <<>> /\ buf = <<>> /\ isFirstRecord = FALSE /\ delim = COMMA
  /\ pc = "cb" /\ ops = 0 /\ result = ErrNil
  /\ in0 = <<>> /\ calls = <<>> /\ firstFail = NoFail /\ cbRet = ErrNil /\ nReads = 1
  /\ arg = NoArg /\ out = NoArg
  /\ \E line \in SeqsUpTo(LowerBytes, MaxLowerLen) :
       /\ b = line
       /\ fields = splitBytes(line, COMMA, MakeFields(FieldCount(line, COMMA))).fields

\* The callback calls record[k].ToLower().
FieldToLower(k) ==
  /\ b' = ToLower(b, fields[k])
  /\ arg' = [fn |-> "Field.ToLower", k |-> k, before |-> b]
  /\ out' = [field |-> fields[k]]
  /\ UNCHANGED <<readerVars, strm, buf, fields, isFirstRecord, delim, pc, ops, result,
                 histVars>>

NextLower == \E k \in 1..Len(fields) : FieldToLower(k)

SpecLower == InitLower /\ [][NextLower]_vars

\* ------------------------------------------------------------------ C13
\* C13: after record[k].ToLower() the line buffer has its old length, every
\* byte 'A'..'Z' inside the field's span is the matching 'a'..'z', every other
\* byte of the line is what it was (so every other field reads as before), the
\* returned Field has the receiver's span, and a second ToLower on it would
\* change nothing.
C13_ToLowerFrame ==
  arg # NoArg =>
    LET f == fields[arg.k]
        old == arg.before
    IN  /\ Len(b) = Len(old)
        /\ \A i \in 1..Len(b) :
             b[i] = IF i \in f[1]..f[2] /\ old[i] \in 65..90 THEN old[i] + 32 ELSE old[i]
        /\ \A j \in 1..Len(fields) : j # arg.k => Data(b, fields[j]) = Data(old, fields[j])
        /\ out.field = f
        /\ ToLower(b, out.field) = b

\* ToLower changed a byte of its field while another field of the record holds
\* an upper-case letter.
C13_Witness ==
  /\ arg # NoArg /\ Len(fields) >= 2
  /\ b # arg.before
  /\ \E j \in 1..Len(fields) :
       /\ j # arg.k
       /\ \E i \in fields[j][1]..fields[j][2] : b[i] \in 65..90

\* ------------------------------------------------------------------ C14
\* C14: when the callback for line k made a failing coercion and also returned
\* an error, Read ends with "Line k: " and the content of the deferred-error
\* slot, a field-parse error (on a Reader's first Read, the error of that
\* callback's first failing coercion), not with the callback's error; and Read
\* is back at the scanner after a callback only if the slot is empty and the
\* callback returned nil.
C14_SlotBeforeCallbackError ==
  /\ (pc = "done" /\ cbRet # ErrNil /\ firstFail.line >= 1 /\ firstFail.line = Len(calls)) =>
       /\ err \notin {ErrNil, cbRet}
       /\ result = ErrLine(Len(calls), err)
       /\ result # ErrLine(Len(calls), cbRet)
       /\ nReads = 1 => err = firstFail.err
  /\ (pc = "scan" /\ Len(calls) >= 1) =>
       /\ err = ErrNil /\ cbRet = ErrNil
       /\ firstFail = NoFail

\* On a Reader's first Read the callback for line 2 made a failing coercion and
\* returned an error, and Read ended with the coercion's error.
C14_Witness ==
  /\ pc = "done" /\ nReads = 1 /\ cbRet = ErrAbort
  /\ Len(calls) = 2 /\ firstFail.line = 2
  /\ result = ErrLine(2, firstFail.err)

\* ------------------------------------------------------------------ C15
\* C15: whatever Read calls the Reader served before, a Read with a valid
\* delimiter over lines that all have the delimiter count of the first (an
\* empty stream included), whose callback makes no failing coercion and returns
\* nil, invokes the callback once per line, numbered from 1, and returns nil.
C15_ReadIndependentOfHistory ==
  LET ls == LinesOf(in0)
  IN  (/\ pc = "done" /\ nReads >= 1 /\ Comma \notin {CR, LF}
       /\ \A k \in 1..Len(ls) : CountByte(ls[k], Comma) = CountByte(ls[1], Comma)
       /\ firstFail = NoFail /\ cbRet = ErrNil) =>
        /\ result = ErrNil
        /\ Len(calls) = Len(ls)
        /\ \A k \in 1..Len(ls) : calls[k].i = k /\ calls[k].line = ls[k]

====
